---------------------------- MODULE Spec2Model ----------------------------
(***************************************************************************)
(* The x402 Solana resource server (src/unnamed/part_001, lines 134-358):  *)
(* the GET /premium handler, run by several requests at once, against a    *)
(* Solana RPC node and ledger.  Further down: the payment header codec,    *)
(* the paying client (src/examples/solana/client.js) and the setup script  *)
(* (src/unnamed/part_001, lines 1-132), each with a specification of its   *)
(* own over the same variables.                                            *)
(*                                                                         *)
(* The handler is an async function on a single-threaded event loop: the   *)
(* code between two awaits runs atomically, and other requests and the     *)
(* chain interleave at every await.  One action models each such segment.  *)
(***************************************************************************)
EXTENDS Integers, Sequences, FiniteSets

(***************************************************************************)
(* Bounds and constants                                                    *)
(***************************************************************************)

\* Number of GET /premium requests in a run.
MaxReq == 2

\* Number of runs of the setup script.
MaxRuns == 2

\* const PRICE_USDC = parseInt(process.env.PRICE_USDC || "1000000")
PRICE_USDC == 1000000

Requests == 1..MaxReq

(***************************************************************************)
(* Token amounts.  The RPC reports uiTokenAmount.amount as a decimal       *)
(* string of a u64.  An amount is kept here as hi * 2^53 + lo with         *)
(* 0 <= lo < 2^31, so that balances beyond Number.MAX_SAFE_INTEGER can be  *)
(* written down.                                                           *)
(***************************************************************************)
Amt(h, l) == [hi |-> h, lo |-> l]

Zero == Amt(0, 0)

\* Exact u64 addition (the token program's arithmetic).
AmtAdd(a, n) == Amt(a.hi, a.lo + n)

\* Exact comparison a - b < n for amounts with the same hi part.
ExactDeltaBelow(post, pre, n) ==
    \/ post.hi < pre.hi
    \/ post.hi = pre.hi /\ post.lo - pre.lo < n

\* Distance between neighbouring IEEE-754 doubles around hi * 2^53: 1 below
\* 2^53, 2 in [2^53, 2^54), doubling with every further power of two.
Ulp(hi) ==
    CASE hi = 0   -> 1
      [] hi = 1   -> 2
      [] hi < 4   -> 4
      [] hi < 8   -> 8
      [] hi < 16  -> 16
      [] hi < 32  -> 32
      [] hi < 64  -> 64
      [] OTHER    -> 128

\* JavaScript Number(string): the nearest IEEE-754 double, ties to even.
\* Below 2^53 every integer is a double.  From 2^53 on the doubles are the
\* multiples of Ulp; an integer halfway between two of them goes to the one
\* whose mantissa is even (hi * 2^53 / Ulp(hi) is even, so the mantissa has
\* the parity of the multiple of Ulp within lo).
Number(a) ==
    LET s == Ulp(a.hi)
        q == a.lo \div s
        rem == a.lo % s
        m == IF 2 * rem < s THEN q
             ELSE IF 2 * rem > s THEN q + 1
             ELSE IF q % 2 = 0 THEN q ELSE q + 1
    IN Amt(a.hi, m * s)

\* Number(postAmount) - Number(preAmount): exact for the doubles above.
NumSub(x, y) == Amt(x.hi - y.hi, x.lo - y.lo)

\* amountReceived < PRICE_USDC on doubles.
NumLess(x, n) == x.hi < 0 \/ (x.hi = 0 /\ x.lo < n)

(***************************************************************************)
(* Transactions a client may have signed.  The first signature of a        *)
(* transaction identifies it: one signature, one message.                  *)
(***************************************************************************)
RECIPIENT_TOKEN_ACCOUNT == "serverATA"

Sigs == {"sigPay", "sigLow", "sigOther"}

NoSig == "none"

\* destination token account and amount of the transfer instruction
TxOf(sig) ==
    CASE sig = "sigPay"   -> [dest |-> RECIPIENT_TOKEN_ACCOUNT, amount |-> PRICE_USDC]
      [] sig = "sigLow"   -> [dest |-> RECIPIENT_TOKEN_ACCOUNT, amount |-> PRICE_USDC - 1]
      [] sig = "sigOther" -> [dest |-> "otherATA", amount |-> PRICE_USDC]

(***************************************************************************)
(* X-Payment headers.  kind says how far the decoding of the header gets:  *)
(*   absent    no X-Payment header                                         *)
(*   empty     the header is the empty string                              *)
(*   malformed JSON.parse throws                                           *)
(*   nopayload JSON without payload.serializedTransaction                  *)
(*   badtx     serializedTransaction is no transaction in either format    *)
(*   tx        a signed, serialized transaction                            *)
(***************************************************************************)
Hdr(k, v, s, n, g) ==
    [kind |-> k, x402Version |-> v, scheme |-> s, network |-> n, sig |-> g]

NoHeader == Hdr("absent", 0, "", "", NoSig)

Headers ==
    { NoHeader,
      Hdr("empty", 0, "", "", NoSig),
      Hdr("malformed", 0, "", "", NoSig),
      Hdr("nopayload", 1, "exact", "solana-devnet", NoSig),
      Hdr("badtx", 1, "exact", "solana-devnet", NoSig),
      Hdr("tx", 1, "upto", "base-sepolia", "sigPay"),
      Hdr("tx", 2, "", "", "sigPay") }
    \cup { Hdr("tx", 1, "exact", "solana-devnet", g) : g \in Sigs }

VARIABLES
    pc,      \* pc[r]: where request r is: idle, send, confirm, fetch, done
    hdr,     \* hdr[r]: the X-Payment header of request r
    steps,   \* steps[r]: the chain calls of request r and how they ended, in order
    resp,    \* resp[r]: the response sent to request r
    chain,   \* chain[sig]: the ledger's view of the transaction
    bal,     \* balance of RECIPIENT_TOKEN_ACCOUNT
    codec,   \* the payment header codec: a proof, its header, its decoding
    client,  \* one run of the paying client
    setup,   \* runs of the setup script and the two wallet files
    boot     \* the server process: its start-up and what it resolved

vars == <<pc, hdr, steps, resp, chain, bal, codec, client, setup, boot>>

\* the server's part of the state, and the rest
serverVars == <<pc, hdr, steps, resp, chain, bal>>

\* no proof encoded, no client started, no setup run: what the server's
\* specification keeps of the other programs
CodecIdle == [stage |-> "idle"]

ClientIdle == [pc |-> "idle"]

SetupIdle == [pc |-> "idle"]

\* the server process after its start-up: wallet loaded, token account
\* resolved, app.listen called
Listening == [pc |-> "listening", wallet |-> "serverKey",
              tokenAccount |-> "serverATA", failed |-> "nothing", exitCode |-> 0]

\* a step of a request or of the ledger touches none of them
ServerOnly == UNCHANGED <<codec, client, setup, boot>>

(***************************************************************************)
(* Responses                                                               *)
(***************************************************************************)
NoError == "<no error field>"

NoResp == [status |-> 0, body |-> "none", error |-> NoError,
           signature |-> NoSig, amount |-> Zero]

\* a quote computed from what the token account holds at the moment
QuoteFromBalance == [status |-> 402, body |-> "accepts", error |-> NoError,
                     signature |-> NoSig, amount |-> bal]

\* res.status(402).json({ x402Version: 1, accepts: [...] })
Quote == [status |-> 402, body |-> "accepts", error |-> NoError,
          signature |-> NoSig, amount |-> Zero]

\* res.status(402).json({ error: e, ... })
Reject(e) == [status |-> 402, body |-> "error", error |-> e,
              signature |-> NoSig, amount |-> Zero]

\* res.json({ data, paymentDetails: { signature, amount, ... } })
Content(sig, amount) == [status |-> 200, body |-> "content", error |-> NoError,
                         signature |-> sig, amount |-> amount]

\* a catch block that answers with a server error
CatchStatus500 == 402 + 98

\* status of the catch block's response
CatchStatus == 402

\* catch (e) { return res.status(402).json({ error: "Payment verification failed", ... }) }
Caught == [Reject("Payment verification failed") EXCEPT !.status = CatchStatus]

(***************************************************************************)
(* The ledger                                                              *)
(***************************************************************************)
NotSeen == [status |-> "none", pre |-> Zero, post |-> Zero]

Init ==
    /\ pc = [r \in Requests |-> "idle"]
    /\ hdr = [r \in Requests |-> NoHeader]
    /\ steps = [r \in Requests |-> <<>>]
    /\ resp = [r \in Requests |-> NoResp]
    /\ chain = [g \in Sigs |-> NotSeen]
    /\ bal \in {Amt(0, 0), Amt(1, 0), Amt(64, 0)}
    /\ codec = CodecIdle
    /\ client = ClientIdle
    /\ setup = SetupIdle
    /\ boot = Listening

\* a response sent without return: the handler goes on to its next stage
FinishWithoutReturn(r, response) ==
    /\ pc' = pc
    /\ resp' = [resp EXCEPT ![r] = response]

\* a return that sends nothing: the request is left without a response
FinishSilently(r, response) ==
    /\ pc' = [pc EXCEPT ![r] = "done"]
    /\ resp' = resp

\* return res.status(...).json(...): the response ends the request
Finish(r, response) ==
    /\ pc' = [pc EXCEPT ![r] = "done"]
    /\ resp' = [resp EXCEPT ![r] = response]


(***************************************************************************)
(* Pure parts of the handler                                               *)
(***************************************************************************)

\* if (xPaymentHeader): undefined and "" are falsy
Truthy(h) == h.kind \notin {"absent", "empty"}

\* JSON.parse(Buffer.from(xPaymentHeader, "base64").toString("utf-8")) and
\* Buffer.from(paymentProof.payload.serializedTransaction, "base64"): either
\* throws (into the catch block) or yields a buffer. scheme, network and
\* x402Version are logged and never compared with anything.
DecodeThrows(h) == h.kind \in {"malformed", "nopayload"}

\* The wire format of the transaction a signature belongs to: a legacy
\* transaction, or a versioned one (first message byte with the high bit set).
TxFormat(g) == IF g = "sigOther" THEN "v0" ELSE "legacy"

\* Transaction.from(txBuffer) returns: it throws on a versioned message
LegacyParses(h) == h.kind = "tx" /\ TxFormat(h.sig) = "legacy"

\* a handler without the second attempt
NoVersionedFallback(h) == FALSE

\* catch (e) { VersionedTransaction.deserialize(txBuffer) } returns
VersionedParses(h) == h.kind = "tx" /\ TxFormat(h.sig) \in {"legacy", "v0"}

\* try { Transaction.from } catch { try { VersionedTransaction.deserialize }
\* catch { return 402 "Invalid transaction format" } }
Deserializes(h) == LegacyParses(h) \/ VersionedParses(h)

\* what getTransaction(signature) returns for a processed transaction:
\* account indexes count from 1 here, from 0 in the RPC response
ConfirmedTx(g) ==
    LET t == TxOf(g)
        ok == chain[g].status = "ok"
        payerPre == Amt(0, t.amount)
        payerPost == IF ok THEN Zero ELSE payerPre
    IN [ staticAccountKeys |-> <<"payerATA", t.dest>>,
         preTokenBalances |-> << [accountIndex |-> 1, amount |-> payerPre],
                                 [accountIndex |-> 2, amount |-> chain[g].pre] >>,
         postTokenBalances |-> << [accountIndex |-> 1, amount |-> payerPost],
                                  [accountIndex |-> 2, amount |-> chain[g].post] >> ]

\* this is the recipient's account:
\* accountKey && accountKey.equals(RECIPIENT_TOKEN_ACCOUNT)
IsRecipient(tx, postBal) ==
    /\ postBal.accountIndex \in DOMAIN tx.staticAccountKeys
    /\ tx.staticAccountKeys[postBal.accountIndex] = RECIPIENT_TOKEN_ACCOUNT

\* preBal?.uiTokenAmount.amount ?? "0", preBal found by accountIndex
PreAmount(tx, postBal) ==
    LET found == { j \in DOMAIN tx.preTokenBalances :
                     tx.preTokenBalances[j].accountIndex = postBal.accountIndex }
    IN IF found = {} THEN Zero
       ELSE tx.preTokenBalances[CHOOSE j \in found : \A k \in found : j <= k].amount

\* let amountReceived = 0; for (...) { if (recipient) { ...; break; } }
AmountReceived(tx) ==
    LET hits == { i \in DOMAIN tx.postTokenBalances :
                    IsRecipient(tx, tx.postTokenBalances[i]) }
    IN IF hits = {} THEN Zero
       ELSE LET postBal == tx.postTokenBalances[CHOOSE i \in hits : \A k \in hits : i <= k]
            IN NumSub(Number(postBal.amount), Number(PreAmount(tx, postBal)))

\* if (amountReceived < PRICE_USDC)
Insufficient(amountReceived) == NumLess(amountReceived, PRICE_USDC)

\* a handler that fetches the transaction without awaiting its confirmation
AfterSubmitSkipsConfirm == "fetch"

\* the await that follows a returned sendRawTransaction
AfterSubmit == "confirm"

\* a handler without the null check: reading confirmedTx.meta throws
NullFetchThrows == Caught

\* if (!confirmedTx) return res.status(402).json({ error: "Could not fetch ..." })
NullFetchResponse == Reject("Could not fetch transaction details")

\* a handler that does not look at confirmation.value.err
ConfirmationErrIgnored(g) == FALSE

\* if (confirmation.value.err)
ConfirmationFailed(g) == chain[g].status = "err"

(***************************************************************************)
(* The handler, one action per segment between awaits                      *)
(***************************************************************************)

\* Request r arrives (requests are numbered in order of arrival) and the
\* handler runs up to its first await: quote, decode, deserialize, and the
\* call of connection.sendRawTransaction.
Arrive(r, h) ==
    /\ pc[r] = "idle"
    /\ IF r = 1 THEN TRUE ELSE pc[r - 1] # "idle"
    /\ hdr' = [hdr EXCEPT ![r] = h]
    /\ UNCHANGED <<chain, bal>>
    /\ IF ~Truthy(h)
       THEN Finish(r, Quote) /\ UNCHANGED steps
       ELSE IF DecodeThrows(h)
       THEN Finish(r, Caught) /\ UNCHANGED steps
       ELSE IF ~Deserializes(h)
       THEN Finish(r, Reject("Invalid transaction format")) /\ UNCHANGED steps
       ELSE /\ pc' = [pc EXCEPT ![r] = "send"]
            /\ steps' = [steps EXCEPT ![r] = <<"sendRawTransaction">>]
            /\ UNCHANGED resp

\* sendRawTransaction returns the signature: the preflight simulation passed
\* (the ledger had not processed the transaction) and the node forwards it.
SendReturns(r) ==
    LET g == hdr[r].sig IN
    /\ pc[r] = "send"
    /\ chain[g].status \in {"none", "pending"}
    /\ chain' = [chain EXCEPT ![g].status = "pending"]
    /\ pc' = [pc EXCEPT ![r] = AfterSubmit]
    /\ steps' = [steps EXCEPT ![r] = Append(@, "submitted")]
    /\ UNCHANGED <<hdr, resp, bal>>

\* sendRawTransaction throws: node unreachable, or the simulation failed
\* (already processed, blockhash expired, payer without funds)
SendThrows(r) ==
    /\ pc[r] = "send"
    /\ Finish(r, Caught)
    /\ steps' = [steps EXCEPT ![r] = Append(@, "threw")]
    /\ UNCHANGED <<hdr, chain, bal>>

\* confirmTransaction resolves once the ledger has processed the signature
ConfirmReturns(r) ==
    LET g == hdr[r].sig IN
    /\ pc[r] = "confirm"
    /\ chain[g].status \in {"ok", "err"}
    /\ UNCHANGED <<hdr, chain, bal>>
    /\ IF ConfirmationFailed(g)
       THEN Finish(r, Reject("Transaction failed")) /\ UNCHANGED steps
       ELSE /\ pc' = [pc EXCEPT ![r] = "fetch"]
            /\ steps' = [steps EXCEPT ![r] = Append(@, "confirmed")]
            /\ UNCHANGED resp

\* confirmTransaction throws: node unreachable, or the blockhash expired
ConfirmThrows(r) ==
    /\ pc[r] = "confirm"
    /\ Finish(r, Caught)
    /\ steps' = [steps EXCEPT ![r] = Append(@, "threw")]
    /\ UNCHANGED <<hdr, chain, bal>>

\* getTransaction returns the processed transaction; the handler computes the
\* balance change of its token account and answers
GetTransactionReturns(r) ==
    LET g == hdr[r].sig
        amountReceived == AmountReceived(ConfirmedTx(g))
    IN
    /\ pc[r] = "fetch"
    /\ chain[g].status \in {"ok", "err"}
    /\ steps' = [steps EXCEPT ![r] = Append(@, "fetched")]
    /\ IF Insufficient(amountReceived)
       THEN Finish(r, [Reject("Insufficient payment") EXCEPT !.amount = amountReceived])
       ELSE Finish(r, Content(g, amountReceived))
    /\ UNCHANGED <<hdr, chain, bal>>

\* getTransaction returns null: the node does not have the transaction (yet)
GetTransactionNull(r) ==
    /\ pc[r] = "fetch"
    /\ Finish(r, NullFetchResponse)
    /\ steps' = [steps EXCEPT ![r] = Append(@, "null")]
    /\ UNCHANGED <<hdr, chain, bal>>

\* getTransaction throws
GetTransactionThrows(r) ==
    /\ pc[r] = "fetch"
    /\ Finish(r, Caught)
    /\ steps' = [steps EXCEPT ![r] = Append(@, "threw")]
    /\ UNCHANGED <<hdr, chain, bal>>

(***************************************************************************)
(* The ledger processes a forwarded transaction, once: it executes (the    *)
(* token program moves the amount) or fails (no balance changes).          *)
(***************************************************************************)
ChainExecutes(g) ==
    LET t == TxOf(g) IN
    /\ chain[g].status = "pending"
    /\ IF t.dest = RECIPIENT_TOKEN_ACCOUNT
       THEN /\ bal' = AmtAdd(bal, t.amount)
            /\ chain' = [chain EXCEPT ![g] =
                           [status |-> "ok", pre |-> bal, post |-> AmtAdd(bal, t.amount)]]
       ELSE /\ bal' = bal
            /\ chain' = [chain EXCEPT ![g] =
                           [status |-> "ok", pre |-> Zero, post |-> Amt(0, t.amount)]]
    /\ UNCHANGED <<pc, hdr, steps, resp>>

ChainFails(g) ==
    LET t == TxOf(g)
        b == IF t.dest = RECIPIENT_TOKEN_ACCOUNT THEN bal ELSE Zero
    IN
    /\ chain[g].status = "pending"
    /\ chain' = [chain EXCEPT ![g] = [status |-> "err", pre |-> b, post |-> b]]
    /\ UNCHANGED <<pc, hdr, steps, resp, bal>>

Next ==
    \/ \E r \in Requests, h \in Headers : Arrive(r, h) /\ ServerOnly
    \/ \E r \in Requests : SendReturns(r) /\ ServerOnly
    \/ \E r \in Requests : SendThrows(r) /\ ServerOnly
    \/ \E r \in Requests : ConfirmReturns(r) /\ ServerOnly
    \/ \E r \in Requests : ConfirmThrows(r) /\ ServerOnly
    \/ \E r \in Requests : GetTransactionReturns(r) /\ ServerOnly
    \/ \E r \in Requests : GetTransactionNull(r) /\ ServerOnly
    \/ \E r \in Requests : GetTransactionThrows(r) /\ ServerOnly
    \/ \E g \in Sigs : ChainExecutes(g) /\ ServerOnly
    \/ \E g \in Sigs : ChainFails(g) /\ ServerOnly

Spec == Init /\ [][Next]_vars


(***************************************************************************)
(* Vocabulary of the properties                                            *)
(***************************************************************************)
Done(r) == pc[r] = "done"

Paying(r) == pc[r] # "idle" /\ hdr[r].kind = "tx"

\* sendRawTransaction returned a signature to request r
Submitted(r) == \E i \in DOMAIN steps[r] : steps[r][i] = "submitted"

\* request r called sendRawTransaction
CalledSend(r) == steps[r] # <<>>

\* the one requirement of the accepts list
Accepted(h) == h.scheme = "exact" /\ h.network = "solana-devnet"

\* the transfer of g pays RECIPIENT_TOKEN_ACCOUNT at least the price
PaysEnough(g) ==
    /\ TxOf(g).dest = RECIPIENT_TOKEN_ACCOUNT
    /\ TxOf(g).amount >= PRICE_USDC

\* on the ledger, g raised the balance of RECIPIENT_TOKEN_ACCOUNT by at least
\* the price (integers, not doubles)
CreditedPrice(g) ==
    /\ chain[g].status = "ok"
    /\ TxOf(g).dest = RECIPIENT_TOKEN_ACCOUNT
    /\ ~ExactDeltaBelow(chain[g].post, chain[g].pre, PRICE_USDC)

(***************************************************************************)
(* C1: for any payment payload, at most one sendRawTransaction of its      *)
(* transaction reaches the chain, however the requests carrying it         *)
(* interleave.                                                             *)
(* Fails: the handler keeps no record of signatures; every request that    *)
(* carries the payload submits it.                                         *)
(***************************************************************************)
C1_AtMostOneSubmission ==
    \A r1, r2 \in Requests :
        (r1 # r2 /\ Paying(r1) /\ Paying(r2) /\ hdr[r1] = hdr[r2])
            => ~(Submitted(r1) /\ Submitted(r2))

(***************************************************************************)
(* C2: all requests presenting the same payload observe one identical      *)
(* outcome: same status, same error, same transaction signature.           *)
(* Fails: no outcome is stored; each request reports what its own RPC      *)
(* calls returned.                                                         *)
(***************************************************************************)
C2_SameOutcome ==
    \A r1, r2 \in Requests :
        (Paying(r1) /\ Paying(r2) /\ hdr[r1] = hdr[r2] /\ Done(r1) /\ Done(r2))
            => /\ resp[r1].status = resp[r2].status
               /\ resp[r1].error = resp[r2].error
               /\ resp[r1].signature = resp[r2].signature

(***************************************************************************)
(* C3: one payload unlocks the content at most once: at most one request   *)
(* carrying it is answered 200.                                            *)
(* Fails: two requests that both submit before the ledger processes the    *)
(* transaction both see it confirmed and both answer 200.                  *)
(***************************************************************************)
C3_AtMostOne200 ==
    \A r1, r2 \in Requests :
        (r1 # r2 /\ Paying(r1) /\ Paying(r2) /\ hdr[r1] = hdr[r2])
            => ~(resp[r1].status = 200 /\ resp[r2].status = 200)

(***************************************************************************)
(* C4: every 200 is preceded, within the same request, by the submission   *)
(* of the payload's transaction, a confirmation without error and a        *)
(* successful fetch of the confirmed transaction, in that order.           *)
(***************************************************************************)
C4_ReleaseAfterSettlement ==
    \A r \in Requests :
        resp[r].status = 200
            => /\ steps[r] = <<"sendRawTransaction", "submitted", "confirmed", "fetched">>
               /\ chain[hdr[r].sig].status = "ok"
               /\ resp[r].signature = hdr[r].sig

C4_Witness ==
    \E r \in Requests : resp[r].status = 200 /\ resp[r].body = "content"

(***************************************************************************)
(* C5: whenever the answer is 200, the confirmed transaction's             *)
(* post-balance minus pre-balance of the server's token account is at      *)
(* least PRICE_USDC.                                                       *)
(* Fails: the two balances go through Number() before the subtraction;     *)
(* from 2^53 on, odd balances are rounded.                                 *)
(***************************************************************************)
C5_SuccessOnlyOnBalanceDelta ==
    \A r \in Requests :
        resp[r].status = 200 => CreditedPrice(hdr[r].sig)

(***************************************************************************)
(* C6: every payload whose transfer to the recipient is strictly less than *)
(* the required amount is rejected, never answered 200, with a reason that *)
(* names the insufficient amount.                                          *)
(* Fails: the amount of the transfer is never read from the payload; the   *)
(* answer is whatever the submission of the transaction leads to.          *)
(***************************************************************************)
C6_LowAmountRejectedAsInsufficient ==
    \A r \in Requests :
        ( /\ Done(r) /\ Paying(r)
          /\ TxOf(hdr[r].sig).dest = RECIPIENT_TOKEN_ACCOUNT
          /\ TxOf(hdr[r].sig).amount < PRICE_USDC )
            => resp[r].status = 402 /\ resp[r].error = "Insufficient payment"

(***************************************************************************)
(* C7: no sendRawTransaction occurs for a transaction whose transfer does  *)
(* not target the required recipient account with amount >= the price.     *)
(* Fails: every buffer that deserializes is submitted.                     *)
(***************************************************************************)
C7_NoSubmissionOfUnverified ==
    \A r \in Requests :
        (Paying(r) /\ ~PaysEnough(hdr[r].sig)) => ~CalledSend(r)

(***************************************************************************)
(* C8: verifying a valid payload changes neither server state nor chain    *)
(* state: no step of a request carrying the valid payload changes the      *)
(* ledger.                                                                 *)
(* Fails: the only check of a payload is its submission to the chain.      *)
(***************************************************************************)
C8_VerificationLeavesChainAlone ==
    [][ \A r \in Requests :
          ( /\ hdr[r] = Hdr("tx", 1, "exact", "solana-devnet", "sigPay")
            /\ pc'[r] # pc[r] )
              => chain' = chain ]_vars

(***************************************************************************)
(* C9: a payload whose (scheme, network) is not exact / solana-devnet is   *)
(* answered 402 with the accepts list of the unpaid request, and causes    *)
(* no chain submission.                                                    *)
(* Fails: scheme and network are only logged.                              *)
(***************************************************************************)
C9_UnknownSchemeGetsQuote ==
    \A r \in Requests :
        (Paying(r) /\ ~Accepted(hdr[r]))
            => /\ ~CalledSend(r)
               /\ Done(r) => resp[r] = Quote

Threw(r) == steps[r] # <<>> /\ steps[r][Len(steps[r])] = "threw"

\* confirmTransaction of request r gave up: the signature was submitted and
\* no confirmation arrived in time
ConfirmTimedOut(r) == steps[r] = <<"sendRawTransaction", "submitted", "threw">>

\* the envelope a decoder would accept: version 1, scheme and network present
EnvelopeOk(h) == h.x402Version = 1 /\ h.scheme # "" /\ h.network # ""

(***************************************************************************)
(* C11: a transport-layer fault (an RPC call that throws during submit,    *)
(* confirm or fetch) is answered so that the client can tell it from a     *)
(* validation rejection: the two answers differ in status or error.        *)
(* Fails: both end in the same catch block.  A header that is not JSON     *)
(* and an unreachable node both give 402 "Payment verification failed";    *)
(* only the free text of details (e.message) differs.                      *)
(***************************************************************************)
C11_TransportFaultDistinct ==
    \A r1, r2 \in Requests :
        (Done(r1) /\ Threw(r1) /\ Done(r2) /\ DecodeThrows(hdr[r2]))
            => \/ resp[r1].status # resp[r2].status
               \/ resp[r1].error # resp[r2].error

(***************************************************************************)
(* C12: after a settlement whose confirmation timed out, a later check of  *)
(* the same payload, made once the transaction has been executed, does not *)
(* submit the transaction again.                                           *)
(* Fails: the only way to ask about a payload is GET /premium, which       *)
(* starts with sendRawTransaction; the timed-out request itself answered   *)
(* 402 "Payment verification failed", not a timeout.                       *)
(***************************************************************************)
C12_NoResubmitAfterTimeout ==
    [][ \A r1, r2 \in Requests :
          ( /\ Done(r1) /\ ConfirmTimedOut(r1)
            /\ chain[hdr[r1].sig].status = "ok"
            /\ pc[r2] = "idle" /\ pc'[r2] # "idle"
            /\ hdr'[r2] = hdr[r1] )
              => steps'[r2] = <<>> ]_vars

(***************************************************************************)
(* C13: if the confirmation of the submitted transaction reports an error, *)
(* the request ends 402 "Transaction failed", the content is not released  *)
(* and the request makes no further chain call: no request gets past the   *)
(* confirmation of a failed transaction.                                   *)
(***************************************************************************)
C13_ChainRejectionTerminal ==
    \A r \in Requests :
        /\ (pc[r] = "fetch" \/ \E i \in DOMAIN steps[r] : steps[r][i] \in {"confirmed", "fetched"})
              => chain[hdr[r].sig].status = "ok"
        /\ resp[r].error = "Transaction failed"
              => /\ Done(r)
                 /\ resp[r].status = 402
                 /\ resp[r].body = "error"
                 /\ steps[r] = <<"sendRawTransaction", "submitted">>
                 /\ chain[hdr[r].sig].status = "err"

C13_Witness ==
    \E r \in Requests : Done(r) /\ resp[r].error = "Transaction failed"

(***************************************************************************)
(* C14: a header whose x402Version is not supported, or whose scheme or    *)
(* network is missing or empty, is rejected (402, error) before any chain  *)
(* submission.                                                             *)
(* Fails: x402Version, scheme and network are only logged.                 *)
(***************************************************************************)
C14_EnvelopeValidated ==
    \A r \in Requests :
        (Paying(r) /\ ~EnvelopeOk(hdr[r]))
            => /\ ~CalledSend(r)
               /\ Done(r) => (resp[r].status = 402 /\ resp[r].error # NoError)

(***************************************************************************)
(* C15: a payload transferring exactly the required amount to the required *)
(* recipient is accepted once its transaction is executed and fetched: the *)
(* answer is 200 with the transaction's signature and the amount actually  *)
(* received.                                                               *)
(* Fails through the Number() rounding of C5: from 2^59 on, doubles are    *)
(* 128 apart and a balance change of 1000000 is computed as 999936.        *)
(***************************************************************************)
C15_ExactAmountAccepted ==
    \A r \in Requests :
        ( /\ Done(r) /\ Paying(r)
          /\ TxOf(hdr[r].sig) = [dest |-> RECIPIENT_TOKEN_ACCOUNT, amount |-> PRICE_USDC]
          /\ steps[r] = <<"sendRawTransaction", "submitted", "confirmed", "fetched">> )
            => /\ resp[r].status = 200
               /\ resp[r].signature = hdr[r].sig
               /\ resp[r].signature # NoSig
               /\ resp[r].amount = Amt(0, PRICE_USDC)

(***************************************************************************)
(* C17: every 402 response, the quote and every rejection, carries         *)
(* x402Version, the accepts list and an error string.                      *)
(* Fails: the quote has x402Version and accepts but no error; a rejection  *)
(* has error (and details) but neither x402Version nor accepts.            *)
(***************************************************************************)
C17_Every402HasVersionAcceptsError ==
    \A r \in Requests :
        resp[r].status = 402
            => resp[r].body = "accepts" /\ resp[r].error # NoError

(***************************************************************************)
(* C18: a payload is paid against a requirement only if its scheme and     *)
(* network equal the requirement's: a request is answered 200 only for a   *)
(* payload of exact / solana-devnet, the one accepted requirement.         *)
(* Fails: the server selects nothing; every payload is settled against     *)
(* PRICE_USDC and RECIPIENT_TOKEN_ACCOUNT.                                 *)
(***************************************************************************)
C18_PaidOnlyAgainstMatchingRequirement ==
    \A r \in Requests :
        resp[r].status = 200 => Accepted(hdr[r])

(***************************************************************************)
(* C19: the quote returned to a request without payment is the same        *)
(* before and after any payment attempts, successful or failed: every      *)
(* unpaid request gets the one quote, and all of them get the same.        *)
(***************************************************************************)
C19_QuoteImmutable ==
    /\ \A r \in Requests : (Done(r) /\ ~Truthy(hdr[r])) => resp[r] = Quote
    /\ \A r1, r2 \in Requests :
          (Done(r1) /\ ~Truthy(hdr[r1]) /\ Done(r2) /\ ~Truthy(hdr[r2]))
              => resp[r1] = resp[r2]

\* a quote beside a payment that was executed and answered 200
C19_Witness ==
    \E r1, r2 \in Requests :
        /\ resp[r1].status = 200
        /\ Done(r2) /\ hdr[r2] = NoHeader /\ resp[r2].body = "accepts"
        /\ bal.lo > 0

(***************************************************************************)
(* C20: each attempt moves forward through its stages (received, decoded   *)
(* and deserialized, submitted, confirmed, amount-checked) and ends in     *)
(* exactly one terminal state, 200 or 402; once it has ended no later      *)
(* stage of it runs.                                                       *)
(***************************************************************************)
Stage(p) ==
    CASE p = "idle" -> 0 [] p = "send" -> 1 [] p = "confirm" -> 2
      [] p = "fetch" -> 3 [] p = "done" -> 4

C20_StagesForwardOnly ==
    [][ \A r \in Requests :
          /\ Stage(pc'[r]) >= Stage(pc[r])
          /\ pc[r] = "done"
                => pc'[r] = "done" /\ resp'[r] = resp[r] /\ steps'[r] = steps[r]
          /\ pc'[r] = "done" => resp'[r].status \in {200, 402}
          /\ pc'[r] # "done" => resp'[r] = NoResp
          /\ Len(steps'[r]) >= Len(steps[r])
          /\ SubSeq(steps'[r], 1, Len(steps[r])) = steps[r] ]_vars

\* one attempt accepted, one rejected at the deserialization stage
C20_Witness ==
    \E r1, r2 \in Requests :
        /\ Done(r1) /\ resp[r1].status = 200
        /\ Done(r2) /\ resp[r2].error = "Invalid transaction format" /\ steps[r2] = <<>>

(***************************************************************************)
(* The server under the proviso that every chain RPC call of a request     *)
(* eventually returns or throws: the await of request r is resumed.        *)
(* Requests need not arrive and the ledger need not process what was       *)
(* forwarded to it.  The token account starts empty: no step of a request  *)
(* waits on a balance.                                                     *)
(***************************************************************************)
FairInit == Init /\ bal = Zero

RpcSettles(r) ==
    /\ \/ SendThrows(r) \/ SendReturns(r)
       \/ ConfirmThrows(r) \/ ConfirmReturns(r)
       \/ GetTransactionThrows(r) \/ GetTransactionNull(r) \/ GetTransactionReturns(r)
    /\ ServerOnly

FairSpec == FairInit /\ [][Next]_vars /\ \A r \in Requests : WF_vars(RpcSettles(r))

(***************************************************************************)
(* C22: no settlement leaves its key reserved: however a request with a    *)
(* payment ended (response or exception path), a later request with the    *)
(* same transaction is not blocked by it and gets its answer.              *)
(***************************************************************************)
C22_LaterSameKeyNotBlocked ==
    \A r2 \in Requests : \A r1 \in 1..(r2 - 1) :
        ( /\ Paying(r1) /\ Done(r1)
          /\ Paying(r2) /\ hdr[r2].sig = hdr[r1].sig )
            ~> (Done(r2) /\ resp[r2] # NoResp)

\* the first attempt left through the catch block after its submission, the
\* second one with the same transaction went through to its answer
C22_Witness ==
    \E r1, r2 \in Requests :
        /\ r1 < r2 /\ hdr[r2].sig = hdr[r1].sig
        /\ Submitted(r1) /\ Threw(r1) /\ Done(r1)
        /\ Paying(r2) /\ Done(r2) /\ resp[r2].status = 200

(***************************************************************************)
(* C23: when a request carrying a payment ends with 402, its transaction   *)
(* has not moved tokens into the server's token account.                   *)
(***************************************************************************)
C23_No402AfterCredit ==
    \A r \in Requests :
        (Paying(r) /\ Done(r) /\ resp[r].status = 402)
            => ~( /\ chain[hdr[r].sig].status = "ok"
                  /\ TxOf(hdr[r].sig).dest = RECIPIENT_TOKEN_ACCOUNT )

(***************************************************************************)
(* C24: a serialized transaction that deserializes in neither format is    *)
(* answered 402 "Invalid transaction format" without any chain call; one   *)
(* that deserializes as legacy or as versioned goes on to submission.      *)
(***************************************************************************)
C24_DeserializeGate ==
    \A r \in Requests :
        (pc[r] # "idle" /\ Truthy(hdr[r]) /\ ~DecodeThrows(hdr[r]))
            => IF hdr[r].kind = "tx" /\ TxFormat(hdr[r].sig) \in {"legacy", "v0"}
               THEN CalledSend(r) /\ resp[r].error # "Invalid transaction format"
               ELSE /\ Done(r)
                    /\ resp[r] = Reject("Invalid transaction format")
                    /\ steps[r] = <<>>

\* a rejected buffer beside a versioned transaction that was submitted
C24_Witness ==
    \E r1, r2 \in Requests :
        /\ hdr[r1].kind = "badtx" /\ Done(r1)
        /\ hdr[r2].kind = "tx" /\ TxFormat(hdr[r2].sig) = "v0" /\ Submitted(r2)

(***************************************************************************)
(* C25: confirmed without error, but getTransaction returns nothing: the   *)
(* answer is 402 "Could not fetch transaction details", the content is not *)
(* released and the transaction is not submitted again; no other path      *)
(* gives that answer.                                                      *)
(***************************************************************************)
NullFetched(r) == steps[r] # <<>> /\ steps[r][Len(steps[r])] = "null"

C25_NullFetchRejected ==
    \A r \in Requests :
        /\ NullFetched(r)
              => /\ Done(r)
                 /\ resp[r] = Reject("Could not fetch transaction details")
                 /\ resp[r].status = 402
                 /\ steps[r] = <<"sendRawTransaction", "submitted", "confirmed", "null">>
        /\ resp[r].error = "Could not fetch transaction details" => NullFetched(r)

\* the transaction was executed, the node did not return it
C25_Witness ==
    \E r \in Requests :
        /\ NullFetched(r) /\ Done(r)
        /\ chain[hdr[r].sig].status = "ok"

(***************************************************************************)
(* C26: every request that arrived gets a response, and exactly one: a     *)
(* response once sent is never followed by another one.                    *)
(***************************************************************************)
C26_ExactlyOneResponse ==
    /\ \A r \in Requests : (pc[r] # "idle") ~> (Done(r) /\ resp[r] # NoResp)
    /\ [][ \A r \in Requests : resp[r] # NoResp => resp'[r] = resp[r] ]_vars

\* every request of the run answered, one of them after all three chain calls
C26_Witness ==
    /\ \A r \in Requests : Done(r) /\ resp[r] # NoResp
    /\ \E r \in Requests : Len(steps[r]) = 4

(***************************************************************************)
(* The payment header codec.  The client encodes with                      *)
(*   Buffer.from(JSON.stringify(paymentProof)).toString("base64")          *)
(* and the server decodes with                                             *)
(*   JSON.parse(Buffer.from(xPaymentHeader, "base64").toString("utf-8")).  *)
(* A text is a sequence of code points, a buffer a sequence of bytes.      *)
(***************************************************************************)

\* JSON values: numbers, strings, objects (members in insertion order)
JNum(n) == [t |-> "num", n |-> n, s |-> <<>>, m |-> <<>>]

JStr(s) == [t |-> "str", n |-> 0, s |-> s, m |-> <<>>]

JObj(m) == [t |-> "obj", n |-> 0, s |-> <<>>, m |-> m]

\* the property names of the payment proof, spelled in code points
KeyVersion == <<120, 52, 48, 50, 86, 101, 114, 115, 105, 111, 110>>   \* x402Version

KeyScheme == <<115, 99, 104, 101, 109, 101>>   \* scheme

KeyNetwork == <<110, 101, 116, 119, 111, 114, 107>>   \* network

KeyPayload == <<112, 97, 121, 108, 111, 97, 100>>   \* payload

KeySerializedTransaction == <<115, 101, 114, 105, 97, 108, 105, 122, 101, 100, 84, 114, 97, 110, 115, 97, 99, 116, 105, 111, 110>>

\* const paymentProof = { x402Version, scheme, network, payload: { serializedTransaction } }
PaymentProof(v, sch, net, tx) ==
    JObj(<< <<KeyVersion, JNum(v)>>,
            <<KeyScheme, JStr(sch)>>,
            <<KeyNetwork, JStr(net)>>,
            <<KeyPayload, JObj(<< <<KeySerializedTransaction, JStr(tx)>> >>)>> >>)

\* Proofs to encode: the client's own values, and strings with a quote, a
\* backslash, a line feed and a character outside ASCII; serialized
\* transactions are base64 texts with zero, two and one padding characters.
Versions == {1, 2, 10}

SchemeStrings == { <<101, 120, 97, 99, 116>>, <<97, 34, 98>>, <<233, 92>> }

NetworkStrings == { <<115, 111, 108, 97, 110, 97, 45, 100, 101, 118, 110, 101, 116>>, <<>>, <<120, 10, 121>> }

TxStrings == { <<65, 81, 73, 68>>, <<65, 81, 61, 61>>, <<43, 47, 56, 61>> }

Proofs ==
    { PaymentProof(v, sch, net, tx) :
        v \in Versions, sch \in SchemeStrings, net \in NetworkStrings, tx \in TxStrings }

RECURSIVE Digits(_)
\* decimal digits of a natural number
Digits(n) == IF n < 10 THEN <<48 + n>> ELSE Digits(n \div 10) \o <<48 + (n % 10)>>

\* a string literal that copies every character as it is
EscapeNothing(c) == <<c>>

\* JSON.stringify's string escapes: \" \\ \n
Escape(c) ==
    IF c = 34 THEN <<92, 34>>
    ELSE IF c = 92 THEN <<92, 92>>
    ELSE IF c = 10 THEN <<92, 110>>
    ELSE <<c>>

RECURSIVE Flatten(_)
\* the concatenation of a sequence of sequences
Flatten(ss) ==
    IF ss = <<>> THEN <<>>
    ELSE IF Len(ss) = 1 THEN ss[1]
    ELSE LET h == Len(ss) \div 2
         IN Flatten(SubSeq(ss, 1, h)) \o Flatten(SubSeq(ss, h + 1, Len(ss)))

EscapeAll(str) == Flatten([i \in DOMAIN str |-> Escape(str[i])])

QuoteString(str) == <<34>> \o EscapeAll(str) \o <<34>>

RECURSIVE Stringify(_)
RECURSIVE StringifyMembers(_)
\* JSON.stringify(value), without indentation
Stringify(v) ==
    CASE v.t = "num" -> Digits(v.n)
      [] v.t = "str" -> QuoteString(v.s)
      [] v.t = "obj" -> <<123>> \o StringifyMembers(v.m) \o <<125>>

StringifyMembers(m) ==
    IF m = <<>> THEN <<>>
    ELSE QuoteString(m[1][1]) \o <<58>> \o Stringify(m[1][2])
           \o (IF Len(m) > 1 THEN <<44>> \o StringifyMembers(Tail(m)) ELSE <<>>)

\* Buffer.from(text): UTF-8, one byte below U+0080, two below U+0800
Utf8Bytes(c) == IF c < 128 THEN <<c>> ELSE <<192 + (c \div 64), 128 + (c % 64)>>

Utf8Encode(text) == Flatten([i \in DOMAIN text |-> Utf8Bytes(text[i])])

ReplacementCharacter == 65533

\* first byte of a two-byte sequence, and a continuation byte
IsLead(b) == b >= 194 /\ b < 224

IsContinuation(b) == b >= 128 /\ b < 192

\* what the byte at position i contributes to the decoded text
Utf8At(bytes, i) ==
    LET b == bytes[i]
    IN IF b < 128 THEN <<b>>
       ELSE IF IsLead(b) /\ i < Len(bytes) /\ IsContinuation(bytes[i + 1])
       THEN <<(b - 192) * 64 + (bytes[i + 1] - 128)>>
       ELSE IF IsContinuation(b) /\ i > 1 /\ IsLead(bytes[i - 1])
       THEN <<>>
       ELSE <<ReplacementCharacter>>

\* buffer.toString("utf-8"): an invalid byte becomes U+FFFD
Utf8Decode(bytes) == Flatten([i \in DOMAIN bytes |-> Utf8At(bytes, i)])

\* the base64 alphabet: A-Z a-z 0-9 + /
Base64Char(i) ==
    IF i < 26 THEN 65 + i
    ELSE IF i < 52 THEN 97 + (i - 26)
    ELSE IF i < 62 THEN 48 + (i - 52)
    ELSE IF i = 62 THEN 43 ELSE 47

Base64Pad == 61

IsBase64Char(c) == \E i \in 0..63 : Base64Char(i) = c

Base64Index(c) == CHOOSE i \in 0..63 : Base64Char(i) = c

\* buffer.toString("base64"): three bytes give four characters, the last
\* group is padded with =
Base64Encode(bytes) ==
    LET n == Len(bytes)
        at(k) == IF k <= n THEN bytes[k] ELSE 0
        char(j) ==
            LET g == 3 * ((j - 1) \div 4)
                q == (j - 1) % 4
                b1 == at(g + 1)
                b2 == at(g + 2)
                b3 == at(g + 3)
            IN CASE q = 0 -> Base64Char(b1 \div 4)
                 [] q = 1 -> Base64Char((b1 % 4) * 16 + (b2 \div 16))
                 [] q = 2 -> IF g + 2 <= n THEN Base64Char((b2 % 16) * 4 + (b3 \div 64))
                             ELSE Base64Pad
                 [] q = 3 -> IF g + 3 <= n THEN Base64Char(b3 % 64) ELSE Base64Pad
    IN [j \in 1..(4 * ((n + 2) \div 3)) |-> char(j)]

\* the alphabet indexes of a base64 text up to its first =, characters
\* outside the alphabet skipped
Base64Sextets(text) ==
    LET pads == { i \in DOMAIN text : text[i] = Base64Pad }
        stop == IF pads = {} THEN Len(text)
                ELSE (CHOOSE i \in pads : \A j \in pads : i <= j) - 1
        kept == SelectSeq(SubSeq(text, 1, stop), IsBase64Char)
    IN [i \in DOMAIN kept |-> Base64Index(kept[i])]

\* Buffer.from(text, "base64"): four characters give three bytes, a last
\* group of two or three characters gives one or two
Base64Decode(text) ==
    LET x == Base64Sextets(text)
        at(k) == IF k <= Len(x) THEN x[k] ELSE 0
        byte(j) ==
            LET g == 4 * ((j - 1) \div 3)
                q == (j - 1) % 3
            IN CASE q = 0 -> at(g + 1) * 4 + (at(g + 2) \div 16)
                 [] q = 1 -> (at(g + 2) % 16) * 16 + (at(g + 3) \div 4)
                 [] q = 2 -> (at(g + 3) % 4) * 64 + at(g + 4)
    IN [j \in 1..((Len(x) * 6) \div 8) |-> byte(j)]

\* the result of a parsing step: a value and the position after it
Parsed(v, i) == [ok |-> TRUE, v |-> v, next |-> i]

SyntaxError == [ok |-> FALSE, v |-> JNum(0), next |-> 0]

RECURSIVE ParseString(_, _, _)
\* the characters of a string literal from position i (after the opening
\* quote) to its closing quote
ParseString(text, i, acc) ==
    IF i > Len(text) THEN SyntaxError
    ELSE IF text[i] = 34 THEN Parsed(JStr(acc), i + 1)
    ELSE IF text[i] = 92
    THEN IF i + 1 > Len(text) THEN SyntaxError
         ELSE IF text[i + 1] \in {34, 92, 47}
         THEN ParseString(text, i + 2, Append(acc, text[i + 1]))
         ELSE IF text[i + 1] = 110 THEN ParseString(text, i + 2, Append(acc, 10))
         ELSE SyntaxError
    ELSE IF text[i] < 32 THEN SyntaxError
    ELSE ParseString(text, i + 1, Append(acc, text[i]))

RECURSIVE ParseNumber(_, _, _)
ParseNumber(text, i, acc) ==
    IF i <= Len(text) /\ text[i] >= 48 /\ text[i] <= 57
    THEN ParseNumber(text, i + 1, acc * 10 + (text[i] - 48))
    ELSE Parsed(JNum(acc), i)

RECURSIVE ParseValue(_, _)
RECURSIVE ParseMembers(_, _, _)
\* the JSON value that starts at position i
ParseValue(text, i) ==
    IF i > Len(text) THEN SyntaxError
    ELSE IF text[i] = 34 THEN ParseString(text, i + 1, <<>>)
    ELSE IF text[i] >= 48 /\ text[i] <= 57 THEN ParseNumber(text, i, 0)
    ELSE IF text[i] = 123
    THEN IF i + 1 <= Len(text) /\ text[i + 1] = 125
         THEN Parsed(JObj(<<>>), i + 2)
         ELSE ParseMembers(text, i + 1, <<>>)
    ELSE SyntaxError

\* "key":value members from position i to the closing brace
ParseMembers(text, i, acc) ==
    IF i > Len(text) \/ text[i] # 34 THEN SyntaxError
    ELSE LET k == ParseString(text, i + 1, <<>>)
         IN IF ~k.ok \/ k.next > Len(text) \/ text[k.next] # 58 THEN SyntaxError
            ELSE LET v == ParseValue(text, k.next + 1)
                     members == Append(acc, <<k.v.s, v.v>>)
                 IN IF ~v.ok \/ v.next > Len(text) THEN SyntaxError
                    ELSE IF text[v.next] = 44 THEN ParseMembers(text, v.next + 1, members)
                    ELSE IF text[v.next] = 125 THEN Parsed(JObj(members), v.next + 1)
                    ELSE SyntaxError

\* JSON.parse(text): one value and nothing after it; a SyntaxError otherwise
ParseJSON(text) ==
    LET r == ParseValue(text, 1)
    IN IF r.ok /\ r.next = Len(text) + 1 THEN r ELSE SyntaxError

\* client.js: Buffer.from(JSON.stringify(paymentProof)).toString("base64")
EncodeHeader(proof) == Base64Encode(Utf8Encode(Stringify(proof)))

\* server: JSON.parse(Buffer.from(xPaymentHeader, "base64").toString("utf-8"))
DecodeHeader(header) == ParseJSON(Utf8Decode(Base64Decode(header)))

\* object[key]: the last member of that name
Absent == [t |-> "undefined", n |-> 0, s |-> <<>>, m |-> <<>>]

Field(obj, key) ==
    LET hits == { i \in DOMAIN obj.m : obj.m[i][1] = key }
    IN IF obj.t # "obj" \/ hits = {} THEN Absent
       ELSE obj.m[CHOOSE i \in hits : \A j \in hits : j <= i][2]

(***************************************************************************)
(* The codec on its own: a proof is encoded into a header by the client    *)
(* and the header is decoded by the server.                                *)
(***************************************************************************)
CodecStart ==
    /\ pc = [r \in Requests |-> "idle"]
    /\ hdr = [r \in Requests |-> NoHeader]
    /\ steps = [r \in Requests |-> <<>>]
    /\ resp = [r \in Requests |-> NoResp]
    /\ chain = [g \in Sigs |-> NotSeen]
    /\ bal = Zero
    /\ client = ClientIdle
    /\ setup = SetupIdle
    /\ boot = Listening
    /\ \E p \in Proofs :
          codec = [stage |-> "built", proof |-> p, header |-> <<>>, decoded |-> SyntaxError]

Encode ==
    /\ codec.stage = "built"
    /\ codec' = [codec EXCEPT !.stage = "sent", !.header = EncodeHeader(codec.proof)]
    /\ UNCHANGED <<pc, hdr, steps, resp, chain, bal, client, setup, boot>>

Decode ==
    /\ codec.stage = "sent"
    /\ codec' = [codec EXCEPT !.stage = "decoded", !.decoded = DecodeHeader(codec.header)]
    /\ UNCHANGED <<pc, hdr, steps, resp, chain, bal, client, setup, boot>>

CodecNext == Encode \/ Decode

CodecSpec == CodecStart /\ [][CodecNext]_vars

(***************************************************************************)
(* C21: the codec round-trips: decoding the header that encoding produced  *)
(* yields a payload with the same x402Version, scheme, network and payload *)
(* fields; encoding and decoding change nothing but their result.          *)
(***************************************************************************)
ProofFields == {KeyVersion, KeyScheme, KeyNetwork, KeyPayload}

C21_CodecRoundTrip ==
    /\ [](codec.stage = "decoded"
            => /\ codec.decoded.ok
               /\ \A k \in ProofFields :
                     /\ Field(codec.proof, k) # Absent
                     /\ Field(codec.decoded.v, k) = Field(codec.proof, k))
    /\ [][ /\ codec'.proof = codec.proof
           /\ codec.stage # "built" => codec'.header = codec.header
           /\ UNCHANGED <<pc, hdr, steps, resp, chain, bal, client, setup, boot>> ]_vars

\* a proof with a quote inside a string and a character outside ASCII went
\* through a padded header
C21_Witness ==
    /\ codec.stage = "decoded"
    /\ \E i \in DOMAIN Field(codec.proof, KeyScheme).s : Field(codec.proof, KeyScheme).s[i] = 233
    /\ Field(codec.proof, KeyNetwork).s = <<120, 10, 121>>
    /\ codec.header[Len(codec.header)] = Base64Pad

(***************************************************************************)
(* The paying client (src/examples/solana/client.js): one call of run().   *)
(* Both of its requests go to SERVER_URL: to the server modelled above     *)
(* ("this"), or to another x402 server ("other") whose answers are free.   *)
(* One action per segment between awaits.                                  *)
(***************************************************************************)

\* quotes of another server: any status, a price below or beyond 2^53
OtherQuotes ==
    { [status |-> st, amount |-> a, tokenAccount |-> "otherATA"] :
        st \in {200, 402, 500}, a \in {Amt(0, PRICE_USDC), Amt(1, 4)} }

\* the quote of the server above: accepts[0] of its 402
ThisQuote(response) ==
    [status |-> response.status, amount |-> Amt(0, PRICE_USDC),
     tokenAccount |-> RECIPIENT_TOKEN_ACCOUNT]

\* what getTokenAccountBalance may report for the payer
Balances == {Zero, Amt(0, PRICE_USDC - 1), Amt(0, PRICE_USDC), Amt(1, 3)}

\* x < y on doubles
DoubleLess(x, y) == x.hi < y.hi \/ (x.hi = y.hi /\ x.lo < y.lo)

\* if (Number(balance.value.amount) < amount)
LowBalance(balance, amount) == DoubleLess(Number(balance), amount)

\* if (quote.status !== 402) throw
QuoteStatusOk(status) == status = 402

\* a client that always adds the create instruction
AlwaysCreate(recipientAccountExists) == TRUE

\* if (!recipientAccountExists) tx.add(createAccountIx)
NeedsCreate(recipientAccountExists) == ~recipientAccountExists

\* createAssociatedTokenAccountInstruction(payer, recipientTokenAccount, owner, mint)
CreateAccountIx(tokenAccount) ==
    [op |-> "createAssociatedTokenAccount", source |-> "payer",
     account |-> tokenAccount, amount |-> Zero]

\* createTransferInstruction(payerTokenAccount.address, recipientTokenAccount, owner, amount)
TransferIx(tokenAccount, amount) ==
    [op |-> "transfer", source |-> "payerATA", account |-> tokenAccount, amount |-> amount]

\* tx.instructions after the two tx.add
Instructions(recipientAccountExists, tokenAccount, amount) ==
    (IF NeedsCreate(recipientAccountExists) THEN <<CreateAccountIx(tokenAccount)>> ELSE <<>>)
        \o <<TransferIx(tokenAccount, amount)>>

\* the signature tx.sign(payer) puts on the transaction, by its transfer
SignatureOf(instructions) ==
    LET t == instructions[Len(instructions)]
    IN CHOOSE g \in Sigs : TxOf(g).dest = t.account /\ Amt(0, TxOf(g).amount) = t.amount

\* a client that sends its payment again after the answer
RetryPaidRequest == "blockhash"

\* run() returns after printing the result
AfterPaidResponse == "done"

ClientStart(server) ==
    [pc |-> "start", server |-> server, req |-> 0, status |-> 0, amount |-> Zero,
     tokenAccount |-> "none", balance |-> Zero, recipientAccountExists |-> FALSE,
     tx |-> <<>>, header |-> NoHeader, paid |-> 0, sent |-> {}, log |-> <<>>,
     result |-> 0]

ClientInit ==
    /\ pc = [r \in Requests |-> "idle"]
    /\ hdr = [r \in Requests |-> NoHeader]
    /\ steps = [r \in Requests |-> <<>>]
    /\ resp = [r \in Requests |-> NoResp]
    /\ chain = [g \in Sigs |-> NotSeen]
    /\ bal = Zero
    /\ codec = CodecIdle
    /\ setup = SetupIdle
    /\ boot = Listening
    /\ \E server \in {"this", "other"} : client = ClientStart(server)

\* the client's request reaches this server (the handler runs to its first
\* await) or goes elsewhere
ClientRequest(h, req) ==
    IF client.server = "this"
    THEN req \in Requests /\ Arrive(req, h)
    ELSE req = 0 /\ UNCHANGED serverVars

\* const quote = await fetch(`${SERVER_URL}/premium`)
ClientFetchQuote ==
    /\ client.pc = "start"
    /\ \E req \in 0..MaxReq :
          /\ ClientRequest(NoHeader, req)
          /\ client' = [client EXCEPT !.pc = "quote", !.req = req]
    /\ UNCHANGED <<codec, setup, boot>>

\* the unpaid request is answered: status check, accepts[0], and the call of
\* getOrCreateAssociatedTokenAccount
ClientQuoteReturns ==
    /\ client.pc = "quote"
    /\ \E q \in (IF client.server = "this"
                 THEN {ThisQuote(resp[client.req])} ELSE OtherQuotes) :
          client' = [client EXCEPT
                        !.pc = IF QuoteStatusOk(q.status) THEN "payerAccount" ELSE "failed",
                        !.status = q.status,
                        !.amount = q.amount,
                        !.tokenAccount = q.tokenAccount,
                        !.log = Append(@, "fetch")]
    /\ UNCHANGED <<serverVars, codec, setup, boot>>

\* getOrCreateAssociatedTokenAccount returns the payer's token account, which
\* it found or which it created with a transaction of its own
ClientPayerAccountReturns ==
    /\ client.pc = "payerAccount"
    /\ \E own \in {{}, {"createPayerATA"}} :
          client' = [client EXCEPT !.pc = "balance",
                                   !.sent = @ \cup own,
                                   !.log = Append(@, "getOrCreateAssociatedTokenAccount")]
    /\ UNCHANGED <<serverVars, codec, setup, boot>>

\* getTokenAccountBalance returns: the balance check, then getAccount
ClientBalanceReturns ==
    /\ client.pc = "balance"
    /\ \E b \in Balances :
          client' = [client EXCEPT
                        !.pc = IF LowBalance(b, client.amount) THEN "failed" ELSE "lookup",
                        !.balance = b,
                        !.log = Append(@, "getTokenAccountBalance")]
    /\ UNCHANGED <<serverVars, codec, setup, boot>>

\* getAccount returns (the recipient token account exists) or throws (caught)
ClientLookupSettles ==
    /\ client.pc = "lookup"
    /\ \E found \in BOOLEAN :
          client' = [client EXCEPT !.pc = "blockhash",
                                   !.recipientAccountExists = found,
                                   !.log = Append(@, "getAccount")]
    /\ UNCHANGED <<serverVars, codec, setup, boot>>

\* getLatestBlockhash returns: the transaction is built, signed, serialized,
\* wrapped into the header, and sent with the second fetch
ClientPays ==
    LET instructions == Instructions(client.recipientAccountExists,
                                     client.tokenAccount, client.amount)
        header == IF client.server = "this"
                  THEN Hdr("tx", 1, "exact", "solana-devnet", SignatureOf(instructions))
                  ELSE Hdr("tx", 1, "exact", "solana-devnet", NoSig)
    IN
    /\ client.pc = "blockhash"
    /\ \E req \in 0..MaxReq :
          /\ ClientRequest(header, req)
          /\ client' = [client EXCEPT !.pc = "paying",
                                      !.req = req,
                                      !.tx = instructions,
                                      !.header = header,
                                      !.paid = @ + 1,
                                      !.log = Append(@, "getLatestBlockhash")]
    /\ UNCHANGED <<codec, setup, boot>>

\* the paid request is answered; run() prints the result and returns
ClientPaidReturns ==
    /\ client.pc = "paying"
    /\ IF client.server = "this"
       THEN /\ Done(client.req)
            /\ client' = [client EXCEPT !.pc = AfterPaidResponse,
                                        !.result = resp[client.req].status,
                                        !.log = Append(@, "fetch")]
       ELSE \E st \in {200, 402} :
               client' = [client EXCEPT !.pc = AfterPaidResponse,
                                        !.result = st,
                                        !.log = Append(@, "fetch")]
    /\ UNCHANGED <<serverVars, codec, setup, boot>>

\* an awaited call throws (getAccount's throw is caught, see above):
\* run().catch prints the error and exits with 1
ClientThrows ==
    /\ client.pc \in {"quote", "payerAccount", "balance", "blockhash", "paying"}
    /\ client' = [client EXCEPT !.pc = "failed"]
    /\ UNCHANGED <<serverVars, codec, setup, boot>>

ClientNext ==
    \/ ClientFetchQuote
    \/ ClientQuoteReturns
    \/ ClientPayerAccountReturns
    \/ ClientBalanceReturns
    \/ ClientLookupSettles
    \/ ClientPays
    \/ ClientPaidReturns
    \/ ClientThrows
    \/ \E r \in Requests : SendReturns(r) /\ ServerOnly
    \/ \E r \in Requests : SendThrows(r) /\ ServerOnly
    \/ \E r \in Requests : ConfirmReturns(r) /\ ServerOnly
    \/ \E r \in Requests : ConfirmThrows(r) /\ ServerOnly
    \/ \E r \in Requests : GetTransactionReturns(r) /\ ServerOnly
    \/ \E r \in Requests : GetTransactionNull(r) /\ ServerOnly
    \/ \E r \in Requests : GetTransactionThrows(r) /\ ServerOnly
    \/ \E g \in Sigs : ChainExecutes(g) /\ ServerOnly
    \/ \E g \in Sigs : ChainFails(g) /\ ServerOnly

ClientSpec == ClientInit /\ [][ClientNext]_vars

(***************************************************************************)
(* Vocabulary of the client's properties                                   *)
(***************************************************************************)
\* the awaited call x has returned to the client
HasLogged(x) == \E i \in DOMAIN client.log : client.log[i] = x

\* a < b on exact token amounts
AmtLess(a, b) == a.hi < b.hi \/ (a.hi = b.hi /\ a.lo < b.lo)

(***************************************************************************)
(* C27: the payment transaction reaches the chain through the server only: *)
(* the client broadcasts nothing but the creation of its own token         *)
(* account, a run sends at most one request with X-Payment, and that       *)
(* request makes the server call sendRawTransaction at most once.          *)
(***************************************************************************)
C27_OnlyServerSubmits ==
    /\ client.paid <= 1
    /\ client.sent \subseteq {"createPayerATA"}
    /\ Cardinality({ r \in Requests : CalledSend(r) }) <= client.paid
    /\ \A r \in Requests :
          CalledSend(r)
              => /\ r = client.req /\ hdr[r] = client.header
                 /\ \A i \in DOMAIN steps[r] : steps[r][i] = "sendRawTransaction" => i = 1
    /\ \A g \in Sigs :
          chain[g].status # "none" => \E r \in Requests : hdr[r].sig = g /\ Submitted(r)

\* a run that created its token account itself, paid, and was served
C27_Witness ==
    /\ client.pc = "done" /\ client.server = "this" /\ client.result = 200
    /\ "createPayerATA" \in client.sent
    /\ chain["sigPay"].status = "ok"

(***************************************************************************)
(* C28: the client builds and signs a payment, and sends an X-Payment      *)
(* request, only after the unpaid request returned 402 and the payer's     *)
(* token balance is at least the quoted amount; with another status or a   *)
(* lower balance it aborts and sends no X-Payment request.                 *)
(***************************************************************************)
C28_PaysOnlyAfter402AndBalance ==
    /\ (client.tx # <<>> \/ client.paid > 0)
          => /\ client.status = 402
             /\ HasLogged("getTokenAccountBalance")
             /\ ~AmtLess(client.balance, client.amount)
    /\ (HasLogged("fetch") /\ client.status # 402)
          => client.pc = "failed" /\ client.tx = <<>> /\ client.paid = 0
    /\ (HasLogged("getTokenAccountBalance") /\ AmtLess(client.balance, client.amount))
          => client.pc = "failed" /\ client.tx = <<>> /\ client.paid = 0

(***************************************************************************)
(* C29: the client's transaction has the transfer of the quoted amount to  *)
(* the quoted recipient token account as its last instruction, preceded by *)
(* a create-associated-token-account instruction exactly when the lookup   *)
(* of the recipient token account failed, and by nothing else.             *)
(***************************************************************************)
C29_TransferLast ==
    client.tx # <<>>
        => LET n == Len(client.tx) IN
           /\ client.tx[n] = [op |-> "transfer", source |-> "payerATA",
                              account |-> client.tokenAccount, amount |-> client.amount]
           /\ n = (IF client.recipientAccountExists THEN 1 ELSE 2)
           /\ n = 2 => /\ client.tx[1].op = "createAssociatedTokenAccount"
                       /\ client.tx[1].account = client.tokenAccount

\* the lookup failed and the transaction with both instructions was sent
C29_Witness ==
    /\ client.paid = 1 /\ Len(client.tx) = 2
    /\ ~client.recipientAccountExists /\ HasLogged("getAccount")

(***************************************************************************)
(* The setup script (src/unnamed/part_001, lines 1-132), run again and     *)
(* again, one run after the other, in a directory that holds the two       *)
(* wallet files.  A file is absent, holds a secret key, or holds something *)
(* that is no secret key.                                                  *)
(***************************************************************************)
WalletFiles == {"server-wallet.json", "client-wallet.json"}

\* secret keys Keypair.generate() may return
Keys == {"k1", "k2", "k3"}

NoFile == "absent"

Garbage == "garbage"

\* what the directory may hold before the first run
FilesBefore == [WalletFiles -> {NoFile, Garbage, "k1"}]

\* a script that generates a wallet whatever the directory holds
GenerateAlways(content) == TRUE

\* if (existsSync(file)) { load } else { generate and write }
GeneratesWallet(content) == content = NoFile

SetupInit ==
    /\ pc = [r \in Requests |-> "idle"]
    /\ hdr = [r \in Requests |-> NoHeader]
    /\ steps = [r \in Requests |-> <<>>]
    /\ resp = [r \in Requests |-> NoResp]
    /\ chain = [g \in Sigs |-> NotSeen]
    /\ bal = Zero
    /\ codec = CodecIdle
    /\ client = ClientIdle
    /\ boot = Listening
    /\ \E before \in FilesBefore :
          setup = [pc |-> "idle", run |-> 0, files |-> before,
                   wallet |-> [f \in WalletFiles |-> NoFile],
                   written |-> [f \in WalletFiles |-> NoFile]]

\* node setup.js
SetupStart ==
    /\ setup.pc \in {"idle", "done", "crashed"}
    /\ setup.run < MaxRuns
    /\ setup' = [setup EXCEPT !.pc = "server", !.run = @ + 1,
                              !.wallet = [f \in WalletFiles |-> NoFile]]
    /\ UNCHANGED <<serverVars, codec, client, boot>>

\* One wallet block of the script: the file is loaded (JSON.parse and
\* Keypair.fromSecretKey throw on a file that holds no secret key, which
\* ends the run), or a generated key is written to it.  written keeps the
\* first key the script has written to the file.
SetupWallet(f, next) ==
    IF GeneratesWallet(setup.files[f])
    THEN \E k \in Keys :
            setup' = [setup EXCEPT
                         !.pc = next,
                         !.files[f] = k,
                         !.wallet[f] = k,
                         !.written[f] = IF @ = NoFile THEN k ELSE @]
    ELSE IF setup.files[f] = Garbage
    THEN setup' = [setup EXCEPT !.pc = "crashed"]
    ELSE setup' = [setup EXCEPT !.pc = next, !.wallet[f] = setup.files[f]]

\* let serverWallet; if (existsSync("./server-wallet.json")) ... else ...
SetupServerWallet ==
    /\ setup.pc = "server"
    /\ SetupWallet("server-wallet.json", "client")
    /\ UNCHANGED <<serverVars, codec, client, boot>>

\* let clientWallet; if (existsSync("./client-wallet.json")) ... else ...
SetupClientWallet ==
    /\ setup.pc = "client"
    /\ SetupWallet("client-wallet.json", "report")
    /\ UNCHANGED <<serverVars, codec, client, boot>>

\* addresses, balances (failures caught) and instructions are printed
SetupReports ==
    /\ setup.pc = "report"
    /\ setup' = [setup EXCEPT !.pc = "done"]
    /\ UNCHANGED <<serverVars, codec, client, boot>>

SetupNext ==
    \/ SetupStart
    \/ SetupServerWallet
    \/ SetupClientWallet
    \/ SetupReports

SetupSpec == SetupInit /\ [][SetupNext]_vars

(***************************************************************************)
(* C30: the setup script never overwrites an existing wallet: for each of  *)
(* the two files it generates and writes a key only when the file is       *)
(* absent, and otherwise loads the file as it is; however often it runs,   *)
(* the wallets the first run created stay as they were written.            *)
(***************************************************************************)
C30_NeverOverwrites ==
    /\ [][ \A f \in WalletFiles :
             /\ setup.files[f] # NoFile => setup'.files[f] = setup.files[f]
             /\ setup'.files[f] # setup.files[f]
                   => setup'.files[f] \in Keys /\ setup'.wallet[f] = setup'.files[f] ]_vars
    /\ [](\A f \in WalletFiles :
             /\ setup.written[f] # NoFile => setup.files[f] = setup.written[f]
             /\ setup.wallet[f] # NoFile => setup.wallet[f] = setup.files[f])

\* a later run has loaded the wallet the first run created, beside a wallet
\* that was there before the first run
C30_Witness ==
    /\ setup.run >= 2 /\ setup.pc = "done"
    /\ setup.written["server-wallet.json"] \in Keys
    /\ setup.wallet["server-wallet.json"] = setup.written["server-wallet.json"]
    /\ setup.written["client-wallet.json"] = NoFile
    /\ setup.wallet["client-wallet.json"] = "k1"

(***************************************************************************)
(* The start of the server process (src/unnamed/part_001, lines 134-188    *)
(* and 353-358).  The module body runs from top to bottom with one         *)
(* top-level await, of getOrCreateAssociatedTokenAccount; the routes are   *)
(* registered and app.listen is called after it.  Requests reach the       *)
(* handler only while the process listens.                                 *)
(***************************************************************************)
Undefined == "undefined"

\* let RECIPIENT_WALLET; let RECIPIENT_TOKEN_ACCOUNT; nothing has failed, the
\* process has no exit code yet
Booting == [pc |-> "start", wallet |-> Undefined, tokenAccount |-> Undefined,
            failed |-> "nothing", exitCode |-> 0]

\* what ./server-wallet.json may hold when the server is started
ServerWalletFile == {NoFile, Garbage, "serverKey"}

\* a catch block that logs the error and lets the module body go on to app.listen
CatchContinues(b, what) == [b EXCEPT !.pc = "listening", !.failed = what]

\* catch (error) { console.error(...); process.exit(1) }
CatchExits(b, what) == [b EXCEPT !.pc = "exited", !.failed = what, !.exitCode = 1]

\* an exception nothing catches ends the process with exit code 1
Uncaught(b, what) == [b EXCEPT !.pc = "exited", !.failed = what, !.exitCode = 1]

StartInit ==
    /\ pc = [r \in Requests |-> "idle"]
    /\ hdr = [r \in Requests |-> NoHeader]
    /\ steps = [r \in Requests |-> <<>>]
    /\ resp = [r \in Requests |-> NoResp]
    /\ chain = [g \in Sigs |-> NotSeen]
    /\ bal = Zero
    /\ codec = CodecIdle
    /\ client = ClientIdle
    /\ setup = SetupIdle
    /\ boot = Booting

\* The module body up to its await: the configuration (new PublicKey throws
\* on a USDC_MINT that is no address, outside any try), then, inside the try,
\* readFileSync, JSON.parse and Keypair.fromSecretKey, and the call of
\* getOrCreateAssociatedTokenAccount.
StartLoadsWallet ==
    /\ boot.pc = "start"
    /\ \E mintOk \in BOOLEAN, file \in ServerWalletFile :
          boot' = IF ~mintOk THEN Uncaught(boot, "USDC_MINT")
                  ELSE IF file \in {NoFile, Garbage} THEN CatchExits(boot, "wallet")
                  ELSE [boot EXCEPT !.pc = "tokenAccount", !.wallet = file]
    /\ UNCHANGED <<serverVars, codec, client, setup>>

\* getOrCreateAssociatedTokenAccount returns: RECIPIENT_TOKEN_ACCOUNT is
\* assigned, the routes are registered and app.listen binds the port (an
\* 'error' event of the listening socket has no handler)
StartTokenAccountReturns ==
    /\ boot.pc = "tokenAccount"
    /\ \E portFree \in BOOLEAN :
          boot' = IF portFree
                  THEN [boot EXCEPT !.pc = "listening",
                                    !.tokenAccount = RECIPIENT_TOKEN_ACCOUNT]
                  ELSE Uncaught([boot EXCEPT !.tokenAccount = RECIPIENT_TOKEN_ACCOUNT],
                                "listen")
    /\ UNCHANGED <<serverVars, codec, client, setup>>

\* getOrCreateAssociatedTokenAccount throws, into the same catch block
StartTokenAccountThrows ==
    /\ boot.pc = "tokenAccount"
    /\ boot' = CatchExits(boot, "tokenAccount")
    /\ UNCHANGED <<serverVars, codec, client, setup>>

\* a request is accepted by the listening socket and handled
StartServes(r, h) ==
    /\ boot.pc = "listening"
    /\ Arrive(r, h)
    /\ ServerOnly

StartNext ==
    \/ StartLoadsWallet
    \/ StartTokenAccountReturns
    \/ StartTokenAccountThrows
    \/ \E r \in Requests, h \in Headers : StartServes(r, h)
    \/ \E r \in Requests : SendReturns(r) /\ ServerOnly
    \/ \E r \in Requests : SendThrows(r) /\ ServerOnly
    \/ \E r \in Requests : ConfirmReturns(r) /\ ServerOnly
    \/ \E r \in Requests : ConfirmThrows(r) /\ ServerOnly
    \/ \E r \in Requests : GetTransactionReturns(r) /\ ServerOnly
    \/ \E r \in Requests : GetTransactionNull(r) /\ ServerOnly
    \/ \E r \in Requests : GetTransactionThrows(r) /\ ServerOnly
    \/ \E g \in Sigs : ChainExecutes(g) /\ ServerOnly
    \/ \E g \in Sigs : ChainFails(g) /\ ServerOnly

StartSpec == StartInit /\ [][StartNext]_vars

(***************************************************************************)
(* C31: the server listens only after its wallet was loaded and its        *)
(* recipient token account was resolved; if either fails the process exits *)
(* with status 1 without having served a request; so every request that is *)
(* handled sees a defined recipient wallet and token account.              *)
(***************************************************************************)
C31_ListensOnlyWhenResolved ==
    /\ boot.pc = "listening"
          => /\ boot.wallet # Undefined /\ boot.tokenAccount # Undefined
             /\ boot.failed = "nothing"
    /\ boot.failed # "nothing"
          => /\ boot.pc = "exited" /\ boot.exitCode = 1
             /\ \A r \in Requests : pc[r] = "idle"
    /\ \A r \in Requests :
          pc[r] # "idle"
              => /\ boot.pc = "listening"
                 /\ boot.wallet = "serverKey"
                 /\ boot.tokenAccount = RECIPIENT_TOKEN_ACCOUNT

\* the process started, and a paid request was served by it
C31_Witness ==
    /\ boot.pc = "listening" /\ boot.wallet = "serverKey"
    /\ \E r \in Requests : Done(r) /\ resp[r].status = 200

=============================================================================
